---- MODULE Spec2Model ----
(***************************************************************************)
(* Blog content service: authentication gate, token service, registration, *)
(* login and password maintenance, ownership checks, the post lifecycle    *)
(* with the categories' post counts, and the like / comment / view         *)
(* mutations on a post.                                                    *)
(*                                                                         *)
(* Every request is a process (a slot of `req`) that walks through the     *)
(* awaits of its Express pipeline: each action below is the code between   *)
(* two awaited database calls, so the interleavings TLC explores are the   *)
(* ones Node's event loop allows between concurrent requests.              *)
(*                                                                         *)
(* Persistence is Mongoose on MongoDB.  Document.save() sends the delta of *)
(* the in-memory document, not the whole document:                         *)
(*   - array.push(x)        -> $push x, $inc __v   (no version test)       *)
(*   - path = other array   -> $set path, test __v = loaded __v, $inc __v  *)
(*   - path = number        -> $set path           (no version test)       *)
(*   - nothing modified     -> no write                                    *)
(* and save() rejects when the update matches no stored document.          *)
(***************************************************************************)
EXTENDS Integers, Sequences, FiniteSets, TLC

VARIABLES now, users, posts, cats, issued, req

vars == <<now, users, posts, cats, issued, req>>

-----------------------------------------------------------------------------
(* Bounds *)

NumReqs == 2          \* requests sent in one behaviour
MaxTime == 3          \* last clock tick

(* Program constants *)

JWT_EXPIRE == 2       \* token lifetime, in clock ticks (the code's '7d')

JWT_SECRET == "secret"

OtherSecret == "forged"

Reqs == 1..NumReqs

(* post ids: the post the collections start with, and one fresh id for the *)
(* insert of each request                                                  *)
PostIds == 1..(NumReqs + 1)

(* the salts bcrypt.genSalt draws *)
Salts == {1, 2}

CatIds == {1, 2}

-----------------------------------------------------------------------------
(* Values *)

NoToken == [kind |-> "none", userId |-> 0, iat |-> 0, exp |-> 0, secret |-> ""]

Garbage == [kind |-> "garbage", userId |-> 0, iat |-> 0, exp |-> 0, secret |-> ""]

NoHeader == [scheme |-> "none", token |-> NoToken]

Bearer(t) == [scheme |-> "Bearer", token |-> t]

Basic(t) == [scheme |-> "Basic", token |-> t]

NoUser == [id |-> 0, role |-> "user", isActive |-> FALSE]

NoPost == [exists |-> FALSE, author |-> 0, category |-> 0, status |-> "draft",
           title |-> "", slug |-> "", views |-> 0, likes |-> <<>>,
           comments |-> <<>>, v |-> 0]

NoBody == [username |-> "", email |-> "", password |-> "", content |-> "",
           title |-> "", category |-> 0, status |-> "", author |-> 0,
           currentPassword |-> "", newPassword |-> "", firstName |-> "",
           lastName |-> "", bio |-> "", role |-> "", isActive |-> ""]

NoCat == [exists |-> FALSE, isActive |-> FALSE, postCount |-> 0]

IdleReq == [op |-> "", pc |-> "idle", header |-> NoHeader, user |-> NoUser,
            pid |-> 0, body |-> NoBody, doc |-> NoPost, cat |-> NoCat,
            modified |-> {},
            token |-> NoToken, count |-> 0, status |-> 0, message |-> "", out |-> 0]

-----------------------------------------------------------------------------
(* Token service *)

generateToken(userId) ==
    [kind |-> "jwt", userId |-> userId, iat |-> now, exp |-> now + JWT_EXPIRE,
     secret |-> JWT_SECRET]

verifyTokenNoExpiry(token) ==
    IF token.kind = "jwt" /\ token.secret = JWT_SECRET
    THEN [ok |-> TRUE, userId |-> token.userId]
    ELSE [ok |-> FALSE, userId |-> 0]

(* jwt.verify: signature under the current secret, then exp against the   *)
(* clock (rejected from the tick exp on)                                   *)
verifyToken(token) ==
    IF token.kind = "jwt" /\ token.secret = JWT_SECRET /\ now < token.exp
    THEN [ok |-> TRUE, userId |-> token.userId]
    ELSE [ok |-> FALSE, userId |-> 0]

-----------------------------------------------------------------------------
(* Responses *)

(* res.status(status).json({message, data}): the request is over; of the   *)
(* request object only what was asked, by whom, and the answer are kept.   *)
Respond(r, status, message, out) ==
    req' = [req EXCEPT ![r] = [IdleReq EXCEPT
                  !.op = req[r].op, !.pid = req[r].pid, !.user = req[r].user,
                  !.header = req[r].header, !.body = req[r].body,
                  !.token = req[r].token, !.pc = "done", !.status = status,
                  !.message = message, !.out = out]]

findUserById(id) ==
    IF id \in DOMAIN users /\ users[id].exists THEN id ELSE 0

findPostByIdGhost(id) ==
    IF id \in DOMAIN posts THEN [posts[id] EXCEPT !.exists = TRUE] ELSE NoPost

(* Post.findById: the stored post, or null *)
findPostById(id) ==
    IF id \in DOMAIN posts /\ posts[id].exists THEN posts[id] ELSE NoPost

-----------------------------------------------------------------------------
(* Passwords.  The value of an account's password path is a text that has  *)
(* been through bcrypt.hash some number of times: 0 for the cleartext a    *)
(* client sent, 1 for its hash, 2 for the hash of its hash.                *)

plaintext(p) == [rounds |-> 0, text |-> p, salt |-> 0]

(* bcrypt.hash(value, salt) *)
hashPassword(value, salt) ==
    [rounds |-> value.rounds + 1, text |-> value.text, salt |-> salt]

comparePasswordAlways(candidate, stored) == TRUE

(* bcrypt.compare(candidate, stored): stored is the hash, under its own    *)
(* salt, of the candidate cleartext                                        *)
comparePassword(candidate, stored) ==
    stored.rounds = 1 /\ stored.text = candidate

isModifiedNever(modified, path) == FALSE

(* this.isModified(path) *)
isModified(modified, path) == path \in modified

preSaveAlways(password, modified, salt) == hashPassword(password, salt)

(* userSchema.pre('save'): the password the save goes on with *)
preSave(password, modified, salt) ==
    IF ~isModified(modified, "password") THEN password
    ELSE hashPassword(password, salt)

-----------------------------------------------------------------------------
(* Authentication gate: the code up to the awaited User.findById and the   *)
(* tests on its result.                                                    *)

isBearerAnyScheme(h) == h.scheme # "none"

(* authHeader && authHeader.startsWith('Bearer ') *)
isBearer(h) == h.scheme = "Bearer"

isActiveAlways(uid) == TRUE

(* user.isActive of the account just loaded *)
isActive(uid) == users[uid].isActive

authenticate(r) ==
    /\ req[r].pc = "auth"
    /\ LET h == req[r].header
           decoded == verifyToken(h.token)
           uid == findUserById(decoded.userId)
       IN  IF ~isBearer(h)
           THEN Respond(r, 401, "Access denied. No token provided.", 0)
           ELSE IF ~decoded.ok
           THEN Respond(r, 401, "Token is not valid.", 0)
           ELSE IF uid = 0
           THEN Respond(r, 401, "Token is not valid. User not found.", 0)
           ELSE IF ~isActive(uid)
           THEN Respond(r, 401, "Account is deactivated.", 0)
           ELSE req' = [req EXCEPT ![r].pc = "authSave",
                          ![r].user = [id |-> uid, role |-> users[uid].role,
                                       isActive |-> users[uid].isActive]]
    /\ UNCHANGED <<now, users, posts, cats, issued>>

(* The awaited user.save() that stamps lastLogin, then next(). *)
authenticateSave(r) ==
    /\ req[r].pc = "authSave"
    /\ LET uid == req[r].user.id
       IN  IF findUserById(uid) = 0
           THEN /\ Respond(r, 401, "Token is not valid.", 0)
                /\ UNCHANGED users
           ELSE /\ \E salt \in Salts :
                     users' = [users EXCEPT
                        ![uid].lastLogin = now,
                        ![uid].password = preSave(@, {"lastLogin"}, salt)]
                /\ req' = [req EXCEPT ![r].pc = "handler"]
    /\ UNCHANGED <<now, posts, cats, issued>>

-----------------------------------------------------------------------------
(* Post model methods, on the in-memory like list *)

hasLike(likes, userId) == \E i \in 1..Len(likes) : likes[i] = userId

addLikeAlways(likes, userId) == Append(likes, userId)

addLike(likes, userId) ==
    IF ~hasLike(likes, userId) THEN Append(likes, userId) ELSE likes

removeLikeInverted(likes, userId) == SelectSeq(likes, LAMBDA x : x = userId)

removeLike(likes, userId) == SelectSeq(likes, LAMBDA x : x # userId)

likeCount(post) == Len(post.likes)

commentCount(post) == Len(post.comments)

(* String.prototype.trim on the comment contents the clients send *)
trim(s) == IF s = " a " THEN "a" ELSE s

Contents == {"a", " a "}

-----------------------------------------------------------------------------
(* Document.save() of a loaded post: the update Mongoose sends for each    *)
(* kind of modification.  A save fails (it rejects, the handler's catch    *)
(* answers 500) when no stored document matches the update's filter.       *)

savePushFront(stored, path, item) ==
    [stored EXCEPT ![path] = <<item>> \o @, !.v = @ + 1]

savePush(stored, path, item) ==
    [stored EXCEPT ![path] = Append(@, item), !.v = @ + 1]

saveSetArray(stored, path, val) ==
    [stored EXCEPT ![path] = val, !.v = @ + 1]

saveSetStale(stored, path, val) == stored

saveSet(stored, path, val) == [stored EXCEPT ![path] = val]

versionMatches(stored, doc) == stored.v = doc.v

-----------------------------------------------------------------------------
(* A client sends a request.  Protected routes enter the authentication    *)
(* gate first; GET /api/posts and GET /api/posts/:id are public.           *)

PublicOps == {"getPosts", "getPost", "register", "login"}

Begin(r, op, h, pid, body) ==
    /\ req[r].pc = "idle"
    /\ \A q \in Reqs : q < r => req[q].pc # "idle"
    /\ req' = [req EXCEPT ![r] = [IdleReq EXCEPT
                  !.op = op, !.header = h, !.pid = pid, !.body = body,
                  !.pc = IF op \in PublicOps THEN "handler" ELSE "auth"]]
    /\ UNCHANGED <<now, users, posts, cats, issued>>

ClientHeaders == {Bearer(t) : t \in issued}

(* the post ids the engagement requests name: the posts that were created *)
Targets == {p \in PostIds : posts[p].exists}

StartLikePost(r) ==
    \E h \in ClientHeaders, p \in Targets : Begin(r, "likePost", h, p, NoBody)

StartUnlikePost(r) ==
    \E h \in ClientHeaders, p \in Targets : Begin(r, "unlikePost", h, p, NoBody)

StartAddComment(r) ==
    \E h \in ClientHeaders, p \in Targets, c \in Contents :
        Begin(r, "addComment", h, p, [NoBody EXCEPT !.content = c])

StartGetPost(r) ==
    \E p \in Targets : Begin(r, "getPost", NoHeader, p, NoBody)

-----------------------------------------------------------------------------
(* likePost: Post.findById, then post.addLike(req.user._id), which pushes  *)
(* and saves only when the loaded like list does not hold the account.     *)

likePost(r) ==
    /\ req[r].pc = "handler" /\ req[r].op = "likePost"
    /\ LET post == findPostById(req[r].pid)
           uid == req[r].user.id
           liked == addLike(post.likes, uid)
       IN  IF ~post.exists
           THEN Respond(r, 404, "Post not found", 0)
           ELSE IF liked = post.likes
           THEN Respond(r, 200, "Post liked successfully", likeCount(post))
           ELSE req' = [req EXCEPT ![r].pc = "save",
                          ![r].doc = [post EXCEPT !.likes = liked],
                          ![r].modified = {"likes"}]
    /\ UNCHANGED <<now, users, posts, cats, issued>>

likePostSave(r) ==
    /\ req[r].pc = "save" /\ req[r].op = "likePost"
    /\ LET pid == req[r].pid
       IN  IF ~posts[pid].exists
           THEN /\ Respond(r, 500, "Server error liking post", 0)
                /\ UNCHANGED posts
           ELSE /\ posts' = [posts EXCEPT
                               ![pid] = savePush(@, "likes",
                                          req[r].doc.likes[Len(req[r].doc.likes)])]
                /\ Respond(r, 200, "Post liked successfully", likeCount(req[r].doc))
    /\ UNCHANGED <<now, users, cats, issued>>

(* unlikePost: Post.findById, then post.removeLike(req.user._id), which    *)
(* assigns the filtered list and saves.                                    *)

unlikePost(r) ==
    /\ req[r].pc = "handler" /\ req[r].op = "unlikePost"
    /\ LET post == findPostById(req[r].pid)
           uid == req[r].user.id
           filtered == removeLike(post.likes, uid)
       IN  IF ~post.exists
           THEN Respond(r, 404, "Post not found", 0)
           ELSE req' = [req EXCEPT ![r].pc = "save",
                          ![r].doc = [post EXCEPT !.likes = filtered],
                          ![r].modified = IF filtered = post.likes
                                          THEN {} ELSE {"likes"}]
    /\ UNCHANGED <<now, users, posts, cats, issued>>

unlikePostSave(r) ==
    /\ req[r].pc = "save" /\ req[r].op = "unlikePost"
    /\ LET pid == req[r].pid
           doc == req[r].doc
       IN  IF ~posts[pid].exists
           THEN /\ Respond(r, 500, "Server error unliking post", 0)
                /\ UNCHANGED posts
           ELSE IF req[r].modified = {}
           THEN /\ Respond(r, 200, "Post unliked successfully", likeCount(doc))
                /\ UNCHANGED posts
           ELSE IF ~versionMatches(posts[pid], doc)
           THEN /\ Respond(r, 500, "Server error unliking post", 0)
                /\ UNCHANGED posts
           ELSE /\ posts' = [posts EXCEPT
                               ![pid] = saveSetArray(@, "likes", doc.likes)]
                /\ Respond(r, 200, "Post unliked successfully", likeCount(doc))
    /\ UNCHANGED <<now, users, cats, issued>>

(* addComment: Post.findById, then post.addComment(req.user._id, content)  *)

addComment(r) ==
    /\ req[r].pc = "handler" /\ req[r].op = "addComment"
    /\ LET post == findPostById(req[r].pid)
           comment == [user |-> req[r].user.id,
                       content |-> trim(req[r].body.content)]
       IN  IF ~post.exists
           THEN Respond(r, 404, "Post not found", 0)
           ELSE req' = [req EXCEPT ![r].pc = "save",
                          ![r].doc = [post EXCEPT !.comments = Append(@, comment)],
                          ![r].modified = {"comments"}]
    /\ UNCHANGED <<now, users, posts, cats, issued>>

addCommentSave(r) ==
    /\ req[r].pc = "save" /\ req[r].op = "addComment"
    /\ LET pid == req[r].pid
           doc == req[r].doc
       IN  IF ~posts[pid].exists
           THEN /\ Respond(r, 500, "Server error adding comment", 0)
                /\ UNCHANGED posts
           ELSE /\ posts' = [posts EXCEPT
                               ![pid] = savePush(@, "comments",
                                                 doc.comments[Len(doc.comments)])]
                /\ Respond(r, 201, "Comment added successfully", commentCount(doc))
    /\ UNCHANGED <<now, users, cats, issued>>

(* getPost: Post.findById, post.views += 1, post.save()                    *)

getPost(r) ==
    /\ req[r].pc = "handler" /\ req[r].op = "getPost"
    /\ LET post == findPostById(req[r].pid)
       IN  IF ~post.exists
           THEN Respond(r, 404, "Post not found", 0)
           ELSE req' = [req EXCEPT ![r].pc = "save",
                          ![r].doc = [post EXCEPT !.views = @ + 1],
                          ![r].modified = {"views"}]
    /\ UNCHANGED <<now, users, posts, cats, issued>>

getPostSaveUpsert(r) ==
    /\ req[r].pc = "save" /\ req[r].op = "getPost"
    /\ posts' = [posts EXCEPT ![req[r].pid] = req[r].doc]
    /\ Respond(r, 200, "", req[r].doc.views)
    /\ UNCHANGED <<now, users, cats, issued>>

getPostSave(r) ==
    /\ req[r].pc = "save" /\ req[r].op = "getPost"
    /\ LET pid == req[r].pid
           doc == req[r].doc
       IN  IF ~posts[pid].exists
           THEN /\ Respond(r, 500, "Server error retrieving post", 0)
                /\ UNCHANGED posts
           ELSE /\ posts' = [posts EXCEPT ![pid] = saveSet(@, "views", doc.views)]
                /\ Respond(r, 200, "", doc.views)
    /\ UNCHANGED <<now, users, cats, issued>>

-----------------------------------------------------------------------------
(* Engagement specification: two registered accounts, one published post   *)
(* of account 1 that may already carry likes, and concurrent like, unlike, *)
(* comment and read requests.                                              *)

Account(name, mail, role) ==
    [exists |-> TRUE, username |-> name, email |-> mail, role |-> role,
     password |-> hashPassword(plaintext("Passw0rd"), 1),
     isActive |-> TRUE, lastLogin |-> -1, firstName |-> "", lastName |-> "",
     bio |-> ""]

InitialLikes == {<<>>, <<1, 2>>}

InitLike ==
    /\ now = 0
    /\ users = <<Account("alice", "a@x", "user"), Account("bob", "b@x", "user")>>
    /\ \E l \in InitialLikes :
         posts = [p \in PostIds |->
                    IF p = 1
                    THEN [NoPost EXCEPT !.exists = TRUE, !.author = 1,
                                        !.category = 1, !.status = "published",
                                        !.title = "t", !.slug = "t",
                                        !.likes = l, !.v = Len(l)]
                    ELSE NoPost]
    /\ cats = [c \in CatIds |->
                 IF c = 1 THEN [exists |-> TRUE, isActive |-> TRUE, postCount |-> 1]
                 ELSE NoCat]
    /\ issued = {[kind |-> "jwt", userId |-> u, iat |-> 0, exp |-> JWT_EXPIRE,
                  secret |-> JWT_SECRET] : u \in {1, 2}}
    /\ req = [r \in Reqs |-> IdleReq]

NextLike ==
    \E r \in Reqs :
        \/ StartLikePost(r)
        \/ StartUnlikePost(r)
        \/ StartAddComment(r)
        \/ StartGetPost(r)
        \/ authenticate(r)
        \/ authenticateSave(r)
        \/ likePost(r)
        \/ likePostSave(r)
        \/ unlikePost(r)
        \/ unlikePostSave(r)
        \/ addComment(r)
        \/ addCommentSave(r)
        \/ getPost(r)
        \/ getPostSave(r)

SpecLike == InitLike /\ [][NextLike]_vars

-----------------------------------------------------------------------------
(* Accounts: lookups, login, the current-user route, and what happens to   *)
(* accounts and to the clock outside the handlers.                         *)

(* String.prototype.toLowerCase on the identifiers the clients send *)
toLowerCase(s) ==
    CASE s = "A@x"   -> "a@x"
      [] s = "B@x"   -> "b@x"
      [] s = "C@x"   -> "c@x"
      [] s = "Alice" -> "alice"
      [] OTHER       -> s

findByEmailOnly(identifier) ==
    {u \in DOMAIN users :
        users[u].exists /\ users[u].email = toLowerCase(identifier)}

(* User.findOne({$or: [{email: identifier.toLowerCase()}, {username}]}):   *)
(* the accounts the query matches; findOne returns one of them.            *)
findByEmailOrUsername(identifier) ==
    {u \in DOMAIN users :
        /\ users[u].exists
        /\ \/ users[u].email = toLowerCase(identifier)
           \/ users[u].username = identifier}

SomeOrNone(S) == IF S = {} THEN {0} ELSE S

login(r) ==
    /\ req[r].pc = "handler" /\ req[r].op = "login"
    /\ \E u \in SomeOrNone(findByEmailOrUsername(req[r].body.email)) :
          IF u = 0
          THEN Respond(r, 401, "Invalid credentials", 0)
          ELSE IF ~comparePassword(req[r].body.password, users[u].password)
          THEN Respond(r, 401, "Invalid credentials", 0)
          ELSE IF ~isActive(u)
          THEN Respond(r, 401, "Account is deactivated", 0)
          ELSE req' = [req EXCEPT ![r].pc = "save",
                         ![r].user = [id |-> u, role |-> users[u].role,
                                      isActive |-> users[u].isActive],
                         ![r].token = generateToken(u)]
    /\ UNCHANGED <<now, users, posts, cats, issued>>

loginSave(r) ==
    /\ req[r].pc = "save" /\ req[r].op = "login"
    /\ LET uid == req[r].user.id
       IN  IF findUserById(uid) = 0
           THEN /\ Respond(r, 500, "Server error during login", 0)
                /\ UNCHANGED <<users, issued>>
           ELSE /\ \E salt \in Salts :
                     users' = [users EXCEPT
                        ![uid].lastLogin = now,
                        ![uid].password = preSave(@, {"lastLogin"}, salt)]
                /\ issued' = issued \cup {req[r].token}
                /\ Respond(r, 200, "Login successful", uid)
    /\ UNCHANGED <<now, posts, cats>>

getMe(r) ==
    /\ req[r].pc = "handler" /\ req[r].op = "getMe"
    /\ Respond(r, 200, "", findUserById(req[r].user.id))
    /\ UNCHANGED <<now, users, posts, cats, issued>>

(* The clock that jwt.sign and jwt.verify read *)
Tick ==
    /\ now < MaxTime
    /\ now' = now + 1
    /\ UNCHANGED <<users, posts, cats, issued, req>>

(* An administrator clears the account's isActive flag *)
Deactivate(u) ==
    /\ users[u].exists /\ users[u].isActive
    /\ users' = [users EXCEPT ![u].isActive = FALSE]
    /\ UNCHANGED <<now, posts, cats, issued, req>>

(* The account's document is removed from the collection *)
DeleteAccount(u) ==
    /\ users[u].exists
    /\ users' = [users EXCEPT ![u].exists = FALSE]
    /\ UNCHANGED <<now, posts, cats, issued, req>>

(* The accounts that hold a token *)
Holders == {t.userId : t \in issued}

(* Tokens a client can build without the server's secret *)
Forged ==
    {[kind |-> "jwt", userId |-> u, iat |-> 0, exp |-> MaxTime + 2,
      secret |-> OtherSecret] : u \in Holders} \cup {Garbage}

AnyHeaders ==
    {NoHeader} \cup {Basic(t) : t \in issued}
               \cup {Bearer(t) : t \in issued \cup Forged}

Identifiers == {"A@x", "nobody"}

Passwords == {"Passw0rd", "wrong"}

StartLogin(r) ==
    \E i \in Identifiers, pw \in Passwords :
        Begin(r, "login", NoHeader, 0,
              [NoBody EXCEPT !.email = i, !.password = pw])

StartGetMe(r) ==
    \E h \in AnyHeaders : Begin(r, "getMe", h, 0, NoBody)

InitAuth ==
    /\ now = 0
    /\ users = <<Account("alice", "a@x", "user"), Account("bob", "b@x", "admin")>>
    /\ posts = [p \in PostIds |-> NoPost]
    /\ cats = [c \in CatIds |-> NoCat]
    /\ issued = {[kind |-> "jwt", userId |-> 1, iat |-> 0, exp |-> JWT_EXPIRE,
                  secret |-> JWT_SECRET]}
    /\ req = [r \in Reqs |-> IdleReq]

NextAuth ==
    \/ Tick
    \/ \E u \in Holders : Deactivate(u)
    \/ \E u \in Holders : DeleteAccount(u)
    \/ \E r \in Reqs :
        \/ StartLogin(r)
        \/ StartGetMe(r)
        \/ login(r)
        \/ loginSave(r)
        \/ authenticate(r)
        \/ authenticateSave(r)
        \/ getMe(r)

SpecAuth == InitAuth /\ [][NextAuth]_vars

-----------------------------------------------------------------------------
(* Registration *)

uniqueIndexNone(username, email) == TRUE

(* The unique indexes on username and email (userSchema: unique: true):   *)
(* an insert is accepted only when no stored account has the same         *)
(* username or the same stored email.                                     *)
uniqueIndexAllows(username, email) ==
    \A u \in DOMAIN users :
        users[u].exists => users[u].username # username /\ users[u].email # email

(* register up to the awaited User.findOne and the test on its result *)
register(r) ==
    /\ req[r].pc = "handler" /\ req[r].op = "register"
    /\ LET username == req[r].body.username
           email == req[r].body.email
           found == {u \in DOMAIN users :
                        /\ users[u].exists
                        /\ \/ users[u].email = toLowerCase(email)
                           \/ users[u].username = username}
       IN  \E existingUser \in SomeOrNone(found) :
              IF existingUser # 0
              THEN Respond(r, 400,
                           IF users[existingUser].email = toLowerCase(email)
                           THEN "Email already exists"
                           ELSE "Username already exists", 0)
              ELSE req' = [req EXCEPT ![r].pc = "save"]
    /\ UNCHANGED <<now, users, posts, cats, issued>>

(* User.create (the schema lowercases the email, the pre-save hook hashes  *)
(* the password, the unique indexes guard the insert), generateToken, 201  *)
registerCreate(r) ==
    /\ req[r].pc = "save" /\ req[r].op = "register"
    /\ LET username == req[r].body.username
           email == toLowerCase(req[r].body.email)
           id == Len(users) + 1
           token == generateToken(id)
       IN  IF ~uniqueIndexAllows(username, email)
           THEN /\ Respond(r, 500, "Server error during registration", 0)
                /\ UNCHANGED <<users, issued>>
           ELSE /\ \E salt \in Salts :
                     users' = Append(users,
                        [exists |-> TRUE, username |-> username, email |-> email,
                         role |-> "user",
                         password |-> preSave(plaintext(req[r].body.password),
                                              {"password"}, salt),
                         isActive |-> TRUE, lastLogin |-> -1, firstName |-> "",
                         lastName |-> "", bio |-> ""])
                /\ issued' = issued \cup {token}
                /\ req' = [req EXCEPT ![r] = [IdleReq EXCEPT
                              !.op = "register", !.body = req[r].body,
                              !.token = token, !.pc = "done", !.status = 201,
                              !.message = "User registered successfully",
                              !.out = id]]
    /\ UNCHANGED <<now, posts, cats>>

Usernames == {"alice", "bob"}

Emails == {"a@x", "A@x", "b@x"}

StartRegister(r) ==
    \E n \in Usernames, e \in Emails :
        Begin(r, "register", NoHeader, 0,
              [NoBody EXCEPT !.username = n, !.email = e, !.password = "Passw0rd"])

InitRegister ==
    /\ now = 0
    /\ users \in {<<>>, <<Account("alice", "a@x", "user")>>,
                  <<Account("alice", "a@x", "user"), Account("bob", "b@x", "user")>>}
    /\ posts = [p \in PostIds |-> NoPost]
    /\ cats = [c \in CatIds |-> NoCat]
    /\ issued = {}
    /\ req = [r \in Reqs |-> IdleReq]

NextRegister ==
    \E r \in Reqs :
        \/ StartRegister(r)
        \/ register(r)
        \/ registerCreate(r)

SpecRegister == InitRegister /\ [][NextRegister]_vars

-----------------------------------------------------------------------------
(* Ownership: updatePost and deletePost *)

isOwnerOnly(post, user) == post.author = user.id

(* the negation of the handlers' test                                      *)
(*   post.author.toString() !== req.user._id.toString()                    *)
(*     && req.user.role !== 'admin'                                        *)
isOwnerOrAdmin(post, user) == post.author = user.id \/ user.role = "admin"

countAllPosts(c) ==
    Cardinality({p \in PostIds : posts[p].exists /\ posts[p].category = c})

(* Post.countDocuments({category, status: 'published'}) *)
countPublished(c) ==
    Cardinality({p \in PostIds : /\ posts[p].exists
                                 /\ posts[p].category = c
                                 /\ posts[p].status = "published"})

(* Category.findById *)
findCategoryById(c) ==
    IF c \in DOMAIN cats /\ cats[c].exists THEN cats[c] ELSE NoCat

(* this.postCount = count; this.save() on the category loaded as `loaded`: *)
(* the path is modified, and written, only when the count differs from the *)
(* loaded value                                                            *)
saveCategory(c, loaded, count) ==
    IF count = loaded.postCount THEN cats
    ELSE [cats EXCEPT ![c].postCount = count]

applyUpdateWithAuthor(post, b) ==
    [post EXCEPT !.title = IF b.title # "" THEN b.title ELSE @,
                 !.category = IF b.category # 0 THEN b.category ELSE @,
                 !.status = IF b.status # "" THEN b.status ELSE @,
                 !.author = IF b.author # 0 THEN b.author ELSE @]

(* the update document {title, content, category, tags, status} of         *)
(* findByIdAndUpdate: the fields the body leaves undefined are not set,    *)
(* and no other field of the body is in it                                 *)
applyUpdate(post, b) ==
    [post EXCEPT !.title = IF b.title # "" THEN b.title ELSE @,
                 !.category = IF b.category # 0 THEN b.category ELSE @,
                 !.status = IF b.status # "" THEN b.status ELSE @]

(* updatePost: Post.findById, the 404 and ownership answers *)
updatePost(r) ==
    /\ req[r].pc = "handler" /\ req[r].op = "updatePost"
    /\ LET post == findPostById(req[r].pid)
       IN  IF ~post.exists
           THEN Respond(r, 404, "Post not found", 0)
           ELSE IF ~isOwnerOrAdmin(post, req[r].user)
           THEN Respond(r, 403, "Not authorized to update this post", 0)
           ELSE req' = [req EXCEPT ![r].doc = post,
                          ![r].pc = IF req[r].body.category # 0
                                    THEN "category" ELSE "save"]
    /\ UNCHANGED <<now, users, posts, cats, issued>>

(* if (category): the awaited Category.findById(category) *)
updatePostCategory(r) ==
    /\ req[r].pc = "category" /\ req[r].op = "updatePost"
    /\ IF ~findCategoryById(req[r].body.category).exists
       THEN Respond(r, 400, "Invalid category", 0)
       ELSE req' = [req EXCEPT ![r].pc = "save"]
    /\ UNCHANGED <<now, users, posts, cats, issued>>

(* Post.findByIdAndUpdate with the fields the body carries; it yields null *)
(* when the post is gone, and updatedPost._id then throws.                 *)
updatePostSave(r) ==
    /\ req[r].pc = "save" /\ req[r].op = "updatePost"
    /\ LET pid == req[r].pid
           b == req[r].body
       IN  IF ~posts[pid].exists
           THEN /\ Respond(r, 500, "Server error updating post", 0)
                /\ UNCHANGED posts
           ELSE /\ posts' = [posts EXCEPT ![pid] = applyUpdate(@, b)]
                /\ Respond(r, 200, "Post updated successfully", 0)
    /\ UNCHANGED <<now, users, cats, issued>>

deletePostDeleteFirst(r) ==
    /\ req[r].pc = "handler" /\ req[r].op = "deletePost"
    /\ LET post == findPostById(req[r].pid)
       IN  IF ~post.exists
           THEN Respond(r, 404, "Post not found", 0) /\ UNCHANGED posts
           ELSE IF ~isOwnerOrAdmin(post, req[r].user)
           THEN /\ posts' = [posts EXCEPT ![req[r].pid] = NoPost]
                /\ Respond(r, 403, "Not authorized to delete this post", 0)
           ELSE /\ req' = [req EXCEPT ![r].doc = post, ![r].pc = "delete"]
                /\ UNCHANGED posts
    /\ UNCHANGED <<now, users, cats, issued>>

(* deletePost: Post.findById, the 404 and ownership answers *)
deletePost(r) ==
    /\ req[r].pc = "handler" /\ req[r].op = "deletePost"
    /\ LET post == findPostById(req[r].pid)
       IN  IF ~post.exists
           THEN Respond(r, 404, "Post not found", 0)
           ELSE IF ~isOwnerOrAdmin(post, req[r].user)
           THEN Respond(r, 403, "Not authorized to delete this post", 0)
           ELSE req' = [req EXCEPT ![r].doc = post, ![r].pc = "delete"]
    /\ UNCHANGED <<now, users, posts, cats, issued>>

(* Post.findByIdAndDelete *)
deletePostDelete(r) ==
    /\ req[r].pc = "delete" /\ req[r].op = "deletePost"
    /\ posts' = [posts EXCEPT ![req[r].pid] = NoPost]
    /\ req' = [req EXCEPT ![r].pc = "category"]
    /\ UNCHANGED <<now, users, cats, issued>>

(* Category.findById(post.category) *)
deletePostCategory(r) ==
    /\ req[r].pc = "category" /\ req[r].op = "deletePost"
    /\ LET category == findCategoryById(req[r].doc.category)
       IN  IF category.exists
           THEN req' = [req EXCEPT ![r].pc = "count", ![r].cat = category]
           ELSE Respond(r, 200, "Post deleted successfully", 0)
    /\ UNCHANGED <<now, users, posts, cats, issued>>

(* category.updatePostCount: the awaited Post.countDocuments *)
deletePostCount(r) ==
    /\ req[r].pc = "count" /\ req[r].op = "deletePost"
    /\ req' = [req EXCEPT ![r].pc = "catSave",
                          ![r].count = countPublished(req[r].doc.category)]
    /\ UNCHANGED <<now, users, posts, cats, issued>>

(* category.updatePostCount: this.save(), then the response *)
deletePostCatSave(r) ==
    /\ req[r].pc = "catSave" /\ req[r].op = "deletePost"
    /\ LET c == req[r].doc.category
       IN  IF ~cats[c].exists
           THEN /\ Respond(r, 500, "Server error deleting post", 0)
                /\ UNCHANGED cats
           ELSE /\ cats' = saveCategory(c, req[r].cat, req[r].count)
                /\ Respond(r, 200, "Post deleted successfully", 0)
    /\ UNCHANGED <<now, users, posts, issued>>

(* the bodies PUT /api/posts/:id is sent: no category, the post's own      *)
(* category, a category id that names no category                         *)
UpdateBodies ==
    {[NoBody EXCEPT !.title = "t2", !.category = c] : c \in {0} \cup CatIds}

StartUpdatePost(r) ==
    \E h \in ClientHeaders, p \in Targets, b \in UpdateBodies :
        Begin(r, "updatePost", h, p, b)

StartDeletePost(r) ==
    \E h \in ClientHeaders, p \in Targets : Begin(r, "deletePost", h, p, NoBody)

InitOwner ==
    /\ now = 0
    /\ users = <<Account("alice", "a@x", "user"), Account("bob", "b@x", "user"),
                 Account("carol", "c@x", "admin")>>
    /\ posts = [p \in PostIds |->
                  IF p = 1
                  THEN [NoPost EXCEPT !.exists = TRUE, !.author = 1,
                                      !.category = 1, !.status = "published",
                                      !.title = "t", !.slug = "t"]
                  ELSE NoPost]
    /\ cats = [c \in CatIds |->
                 IF c = 1 THEN [exists |-> TRUE, isActive |-> TRUE, postCount |-> 1]
                 ELSE NoCat]
    /\ issued = {[kind |-> "jwt", userId |-> u, iat |-> 0, exp |-> JWT_EXPIRE,
                  secret |-> JWT_SECRET] : u \in {1, 2, 3}}
    /\ req = [r \in Reqs |-> IdleReq]

NextOwner ==
    \E r \in Reqs :
        \/ StartUpdatePost(r)
        \/ StartDeletePost(r)
        \/ authenticate(r)
        \/ authenticateSave(r)
        \/ updatePost(r)
        \/ updatePostCategory(r)
        \/ updatePostSave(r)
        \/ deletePost(r)
        \/ deletePostDelete(r)
        \/ deletePostCategory(r)
        \/ deletePostCount(r)
        \/ deletePostCatSave(r)

SpecOwner == InitOwner /\ [][NextOwner]_vars

-----------------------------------------------------------------------------
(* Post lifecycle: createPost, and the clients of the post routes          *)

(* String.prototype.toLowerCase and the replaces of the slug hook, on the  *)
(* titles the clients send                                                 *)
slugOf(title) ==
    CASE title = "N1" -> "n1"
      [] title = "N2" -> "n2"
      [] title = "T2" -> "t2"
      [] OTHER        -> title

(* the unique index on slug (postSchema: unique: true) *)
slugIndexAllows(slug) ==
    \A p \in PostIds : posts[p].exists => posts[p].slug # slug

(* the ObjectId the driver generates for the insert of request r: fresh,   *)
(* never the id of another post                                            *)
newPostId(r) == r + 1

(* createPost up to the awaited Category.findById and the test on it *)
createPost(r) ==
    /\ req[r].pc = "handler" /\ req[r].op = "createPost"
    /\ LET categoryExists == findCategoryById(req[r].body.category)
       IN  IF ~categoryExists.exists
           THEN Respond(r, 400, "Invalid category", 0)
           ELSE req' = [req EXCEPT ![r].pc = "create", ![r].cat = categoryExists]
    /\ UNCHANGED <<now, users, posts, cats, issued>>

(* Post.create: the slug hook, the insert under the unique slug index, and *)
(* the two populate reads                                                  *)
createPostCreate(r) ==
    /\ req[r].pc = "create" /\ req[r].op = "createPost"
    /\ LET b == req[r].body
           id == newPostId(r)
           post == [NoPost EXCEPT
                      !.exists = TRUE, !.author = req[r].user.id,
                      !.category = b.category, !.title = b.title,
                      !.slug = slugOf(b.title),
                      !.status = IF b.status # "" THEN b.status ELSE "published"]
       IN  IF ~slugIndexAllows(post.slug)
           THEN /\ Respond(r, 500, "Server error creating post", 0)
                /\ UNCHANGED posts
           ELSE /\ posts' = [posts EXCEPT ![id] = post]
                /\ req' = [req EXCEPT ![r].pc = "count", ![r].pid = id,
                                      ![r].doc = post]
    /\ UNCHANGED <<now, users, cats, issued>>

(* categoryExists.updatePostCount: the awaited Post.countDocuments *)
createPostCount(r) ==
    /\ req[r].pc = "count" /\ req[r].op = "createPost"
    /\ req' = [req EXCEPT ![r].pc = "catSave",
                          ![r].count = countPublished(req[r].body.category)]
    /\ UNCHANGED <<now, users, posts, cats, issued>>

(* categoryExists.updatePostCount: this.save(), then the 201 response *)
createPostCatSave(r) ==
    /\ req[r].pc = "catSave" /\ req[r].op = "createPost"
    /\ LET c == req[r].body.category
       IN  IF ~findCategoryById(c).exists
           THEN /\ Respond(r, 500, "Server error creating post", 0)
                /\ UNCHANGED cats
           ELSE /\ cats' = saveCategory(c, req[r].cat, req[r].count)
                /\ Respond(r, 201, "Post created successfully", req[r].pid)
    /\ UNCHANGED <<now, users, posts, issued>>

(* an id that names no post (the tests' fresh ObjectId) *)
MissingId == 0

AnyTargets == Targets \cup {MissingId}

(* the bodies POST /api/posts is sent: published by default or a draft in  *)
(* category 1, and a category id that names no category                    *)
CreateBodies ==
    { [NoBody EXCEPT !.title = "N1", !.category = 1],
      [NoBody EXCEPT !.title = "N2", !.category = 1, !.status = "draft"],
      [NoBody EXCEPT !.title = "N1", !.category = 3] }

(* the bodies PUT /api/posts/:id is sent: a status change, and a move to   *)
(* the other category with a new title that also carries an author field  *)
LifecycleUpdates ==
    { [NoBody EXCEPT !.status = "draft"],
      [NoBody EXCEPT !.category = 2, !.title = "T2", !.author = 2] }

StartCreatePost(r) ==
    \E h \in ClientHeaders, b \in CreateBodies :
        Begin(r, "createPost", h, 0, b)

(* the same, and a body that names the deactivated category *)
CreateBodiesAny ==
    CreateBodies \cup {[NoBody EXCEPT !.title = "N2", !.category = 2]}

StartCreateAny(r) ==
    \E h \in ClientHeaders, b \in CreateBodiesAny :
        Begin(r, "createPost", h, 0, b)

StartUpdateAny(r) ==
    \E h \in ClientHeaders, p \in AnyTargets, b \in LifecycleUpdates :
        Begin(r, "updatePost", h, p, b)

StartDeleteAny(r) ==
    \E h \in ClientHeaders, p \in AnyTargets :
        Begin(r, "deletePost", h, p, NoBody)

StartGetAny(r) ==
    \E p \in AnyTargets : Begin(r, "getPost", NoHeader, p, NoBody)

(* an author and an admin, one published post of the author in category 1, *)
(* two categories whose counts are up to date, the second one deactivated  *)
InitPosts ==
    /\ now = 0
    /\ users = <<Account("alice", "a@x", "user"), Account("bob", "b@x", "admin")>>
    /\ posts = [p \in PostIds |->
                  IF p = 1
                  THEN [NoPost EXCEPT !.exists = TRUE, !.author = 1,
                                      !.category = 1, !.status = "published",
                                      !.title = "t", !.slug = "t"]
                  ELSE NoPost]
    /\ cats = [c \in CatIds |->
                 [exists |-> TRUE, isActive |-> (c = 1),
                  postCount |-> IF c = 1 THEN 1 ELSE 0]]
    /\ issued = {[kind |-> "jwt", userId |-> u, iat |-> 0, exp |-> JWT_EXPIRE,
                  secret |-> JWT_SECRET] : u \in {1, 2}}
    /\ req = [r \in Reqs |-> IdleReq]

(* the steps of the post routes *)
PostSteps(r) ==
    \/ authenticate(r)
    \/ authenticateSave(r)
    \/ createPost(r)
    \/ createPostCreate(r)
    \/ createPostCount(r)
    \/ createPostCatSave(r)
    \/ updatePost(r)
    \/ updatePostCategory(r)
    \/ updatePostSave(r)
    \/ deletePost(r)
    \/ deletePostDelete(r)
    \/ deletePostCategory(r)
    \/ deletePostCount(r)
    \/ deletePostCatSave(r)

(* concurrent clients *)
NextPosts ==
    \E r \in Reqs :
        \/ StartCreatePost(r)
        \/ StartUpdateAny(r)
        \/ StartDeleteAny(r)
        \/ PostSteps(r)

SpecPosts == InitPosts /\ [][NextPosts]_vars

(* One client that awaits each response before it sends the next request  *)
Awaited == \A r \in Reqs : req[r].pc \in {"idle", "done"}

NextSeq ==
    \E r \in Reqs :
        \/ Awaited /\ StartCreateAny(r)
        \/ Awaited /\ StartUpdateAny(r)
        \/ Awaited /\ StartDeleteAny(r)
        \/ Awaited /\ StartGetAny(r)
        \/ PostSteps(r)
        \/ getPost(r)
        \/ getPostSave(r)

SpecSeq == InitPosts /\ [][NextSeq]_vars

-----------------------------------------------------------------------------
(* Account maintenance: changePassword and updateProfile                   *)

(* changePassword: User.findById (null.comparePassword throws when the     *)
(* account is gone), the comparison, and user.password = newPassword       *)
changePassword(r) ==
    /\ req[r].pc = "handler" /\ req[r].op = "changePassword"
    /\ LET uid == findUserById(req[r].user.id)
       IN  IF uid = 0
           THEN Respond(r, 500, "Server error changing password", 0)
           ELSE IF ~comparePassword(req[r].body.currentPassword,
                                    users[uid].password)
           THEN Respond(r, 400, "Current password is incorrect", 0)
           ELSE req' = [req EXCEPT ![r].pc = "save",
                                   ![r].modified = {"password"}]
    /\ UNCHANGED <<now, users, posts, cats, issued>>

(* user.save(): the pre-save hook, then the write of the password path *)
changePasswordSave(r) ==
    /\ req[r].pc = "save" /\ req[r].op = "changePassword"
    /\ LET uid == req[r].user.id
       IN  IF findUserById(uid) = 0
           THEN /\ Respond(r, 500, "Server error changing password", 0)
                /\ UNCHANGED users
           ELSE /\ \E salt \in Salts :
                     users' = [users EXCEPT ![uid].password =
                                  preSave(plaintext(req[r].body.newPassword),
                                          req[r].modified, salt)]
                /\ Respond(r, 200, "Password changed successfully", 0)
    /\ UNCHANGED <<now, posts, cats, issued>>

applyProfileAnyField(user, b) ==
    [user EXCEPT !.firstName = IF b.firstName # "" THEN b.firstName ELSE @,
                 !.lastName = IF b.lastName # "" THEN b.lastName ELSE @,
                 !.bio = IF b.bio # "" THEN b.bio ELSE @,
                 !.role = IF b.role # "" THEN b.role ELSE @,
                 !.email = IF b.email # "" THEN b.email ELSE @]

(* the updates object: profile.firstName, profile.lastName and profile.bio *)
(* for those of the three the body defines                                 *)
applyProfile(user, b) ==
    [user EXCEPT !.firstName = IF b.firstName # "" THEN b.firstName ELSE @,
                 !.lastName = IF b.lastName # "" THEN b.lastName ELSE @,
                 !.bio = IF b.bio # "" THEN b.bio ELSE @]

(* updateProfile: User.findByIdAndUpdate with the updates object; the      *)
(* answer is 200 also when the update found no account                     *)
updateProfile(r) ==
    /\ req[r].pc = "handler" /\ req[r].op = "updateProfile"
    /\ LET uid == findUserById(req[r].user.id)
       IN  /\ users' = IF uid # 0
                       THEN [users EXCEPT ![uid] = applyProfile(@, req[r].body)]
                       ELSE users
           /\ Respond(r, 200, "Profile updated successfully", uid)
    /\ UNCHANGED <<now, posts, cats, issued>>

LoginIdentifiers == {"A@x", "alice", "nobody"}

LoginPasswords == {"Passw0rd", "N3wPassw"}

(* the bodies PUT /api/auth/profile is sent: a first name together with    *)
(* fields that are not profile fields                                      *)
ProfileBodies ==
    {[NoBody EXCEPT !.firstName = "Al", !.password = "Hacked00",
                    !.role = "admin", !.isActive = "false",
                    !.email = "h@x", !.username = "hacker"]}

StartLoginAccount(r) ==
    \E i \in LoginIdentifiers, pw \in LoginPasswords :
        Begin(r, "login", NoHeader, 0,
              [NoBody EXCEPT !.email = i, !.password = pw])

StartChangePassword(r) ==
    \E h \in ClientHeaders, cur \in LoginPasswords, new \in LoginPasswords :
        Begin(r, "changePassword", h, 0,
              [NoBody EXCEPT !.currentPassword = cur, !.newPassword = new])

StartUpdateProfile(r) ==
    \E h \in ClientHeaders, b \in ProfileBodies :
        Begin(r, "updateProfile", h, 0, b)

StartRegisterNew(r) ==
    Begin(r, "register", NoHeader, 0,
          [NoBody EXCEPT !.username = "carol", !.email = "C@x",
                         !.password = "Passw0rd"])

(* two registered accounts; the first holds a token *)
InitAccount ==
    /\ now = 0
    /\ users = <<Account("alice", "a@x", "user"), Account("bob", "b@x", "user")>>
    /\ posts = [p \in PostIds |-> NoPost]
    /\ cats = [c \in CatIds |-> NoCat]
    /\ issued = {[kind |-> "jwt", userId |-> 1, iat |-> 0, exp |-> JWT_EXPIRE,
                  secret |-> JWT_SECRET]}
    /\ req = [r \in Reqs |-> IdleReq]

NextAccount ==
    \/ \E u \in Holders : Deactivate(u)
    \/ \E r \in Reqs :
        \/ StartLoginAccount(r)
        \/ StartChangePassword(r)
        \/ StartUpdateProfile(r)
        \/ StartRegisterNew(r)
        \/ authenticate(r)
        \/ authenticateSave(r)
        \/ login(r)
        \/ loginSave(r)
        \/ register(r)
        \/ registerCreate(r)
        \/ changePassword(r)
        \/ changePasswordSave(r)
        \/ updateProfile(r)

SpecAccount == InitAccount /\ [][NextAccount]_vars

-----------------------------------------------------------------------------
(* Engagement racing with update and delete: the author and another        *)
(* account act concurrently on the author's post, or on an id that names   *)
(* no post.                                                                *)

RaceContents == {" a "}

RaceUpdates == {[NoBody EXCEPT !.status = "draft", !.title = "T2"]}

StartLikeAny(r) ==
    \E h \in ClientHeaders, p \in AnyTargets : Begin(r, "likePost", h, p, NoBody)

StartUnlikeAny(r) ==
    \E h \in ClientHeaders, p \in AnyTargets : Begin(r, "unlikePost", h, p, NoBody)

StartCommentAny(r) ==
    \E h \in ClientHeaders, p \in AnyTargets, c \in RaceContents :
        Begin(r, "addComment", h, p, [NoBody EXCEPT !.content = c])

StartUpdateRace(r) ==
    \E h \in ClientHeaders, p \in AnyTargets, b \in RaceUpdates :
        Begin(r, "updatePost", h, p, b)

InitRace ==
    /\ now = 0
    /\ users = <<Account("alice", "a@x", "user"), Account("bob", "b@x", "user")>>
    /\ posts = [p \in PostIds |->
                  IF p = 1
                  THEN [NoPost EXCEPT !.exists = TRUE, !.author = 1,
                                      !.category = 1, !.status = "published",
                                      !.title = "t", !.slug = "t",
                                      !.likes = <<1>>, !.v = 1]
                  ELSE NoPost]
    /\ cats = [c \in CatIds |->
                 IF c = 1 THEN [exists |-> TRUE, isActive |-> TRUE, postCount |-> 1]
                 ELSE NoCat]
    /\ issued = {[kind |-> "jwt", userId |-> u, iat |-> 0, exp |-> JWT_EXPIRE,
                  secret |-> JWT_SECRET] : u \in {1, 2}}
    /\ req = [r \in Reqs |-> IdleReq]

NextRace ==
    \E r \in Reqs :
        \/ StartLikeAny(r)
        \/ StartUnlikeAny(r)
        \/ StartCommentAny(r)
        \/ StartGetAny(r)
        \/ StartUpdateRace(r)
        \/ StartDeleteAny(r)
        \/ authenticate(r)
        \/ authenticateSave(r)
        \/ likePost(r)
        \/ likePostSave(r)
        \/ unlikePost(r)
        \/ unlikePostSave(r)
        \/ addComment(r)
        \/ addCommentSave(r)
        \/ getPost(r)
        \/ getPostSave(r)
        \/ updatePost(r)
        \/ updatePostSave(r)
        \/ deletePost(r)
        \/ deletePostDelete(r)
        \/ deletePostCategory(r)
        \/ deletePostCount(r)
        \/ deletePostCatSave(r)

SpecRace == InitRace /\ [][NextRace]_vars

-----------------------------------------------------------------------------
(* The ownership middleware checkOwnership(modelName), mounted after       *)
(* authenticate on a route that modifies the resource req.params.id names  *)

NoResource == [exists |-> FALSE, hasAuthor |-> FALSE, author |-> 0]

(* the model a guarded route is mounted for *)
modelName(op) == IF op = "guardedPost" THEN "Post" ELSE "Category"

(* Model.findById(req.params.id): a post carries an author, a category     *)
(* has no author path                                                      *)
findResource(model, id) ==
    IF model = "Post"
    THEN IF findPostById(id).exists
         THEN [exists |-> TRUE, hasAuthor |-> TRUE, author |-> posts[id].author]
         ELSE NoResource
    ELSE IF findCategoryById(id).exists
         THEN [exists |-> TRUE, hasAuthor |-> FALSE, author |-> 0]
         ELSE NoResource

(* resource.author && resource.author.toString() !== req.user._id.toString() *)
(*   && req.user.role !== 'admin'                                            *)
ownershipDenied(resource, user) ==
    resource.hasAuthor /\ resource.author # user.id /\ user.role # "admin"

checkOwnership(r) ==
    /\ req[r].pc = "handler" /\ req[r].op \in {"guardedPost", "guardedCategory"}
    /\ LET resource == findResource(modelName(req[r].op), req[r].pid)
       IN  IF ~resource.exists
           THEN Respond(r, 404, modelName(req[r].op) \o " not found.", 0)
           ELSE IF ownershipDenied(resource, req[r].user)
           THEN Respond(r, 403,
                  "Access denied. You can only modify your own resources.", 0)
           ELSE req' = [req EXCEPT ![r].pc = "guarded"]
    /\ UNCHANGED <<now, users, posts, cats, issued>>

(* next(): the route's handler, which has req.resource, answers *)
guardedHandler(r) ==
    /\ req[r].pc = "guarded"
    /\ Respond(r, 200, "", req[r].pid)
    /\ UNCHANGED <<now, users, posts, cats, issued>>

ResourceIds == {1, 2}

StartGuarded(r) ==
    \E h \in ClientHeaders, op \in {"guardedPost", "guardedCategory"},
       id \in ResourceIds :
        Begin(r, op, h, id, NoBody)

NextGuard ==
    \E r \in Reqs :
        \/ StartGuarded(r)
        \/ authenticate(r)
        \/ authenticateSave(r)
        \/ checkOwnership(r)
        \/ guardedHandler(r)

SpecGuard == InitOwner /\ [][NextGuard]_vars

-----------------------------------------------------------------------------
(* Faults.  Every step of a request after its first synchronous part is an *)
(* awaited database call, and an awaited call may reject for a reason the  *)
(* stored data does not show (the connection drops).  The rejection is     *)
(* thrown at the await and lands in the catch of the try block around it.  *)

(* getPosts: the awaited Post.find(filter) with filter.status 'published' *)
getPosts(r) ==
    /\ req[r].pc = "handler" /\ req[r].op = "getPosts"
    /\ req' = [req EXCEPT ![r].pc = "count",
                 ![r].count = Cardinality({p \in PostIds :
                     posts[p].exists /\ posts[p].status = "published"})]
    /\ UNCHANGED <<now, users, posts, cats, issued>>

(* the awaited Post.countDocuments(filter), then res.json *)
getPostsCount(r) ==
    /\ req[r].pc = "count" /\ req[r].op = "getPosts"
    /\ Respond(r, 200, "", Cardinality({p \in PostIds :
                     posts[p].exists /\ posts[p].status = "published"}))
    /\ UNCHANGED <<now, users, posts, cats, issued>>

(* the positions of a request inside a controller's try block *)
HandlerPcs == {"handler", "save", "category", "create", "delete", "count",
               "catSave"}

(* the message of each controller's catch *)
ServerError(op) ==
    CASE op = "register"       -> "Server error during registration"
      [] op = "login"          -> "Server error during login"
      [] op = "getMe"          -> "Server error retrieving user data"
      [] op = "updateProfile"  -> "Server error updating profile"
      [] op = "changePassword" -> "Server error changing password"
      [] op = "getPosts"       -> "Server error retrieving posts"
      [] op = "getPost"        -> "Server error retrieving post"
      [] op = "createPost"     -> "Server error creating post"
      [] op = "updatePost"     -> "Server error updating post"
      [] op = "deletePost"     -> "Server error deleting post"
      [] op = "likePost"       -> "Server error liking post"
      [] op = "unlikePost"     -> "Server error unliking post"
      [] OTHER                 -> "Server error adding comment"

(* authenticate's catch: the awaited User.findById, reached once the token *)
(* has verified, or the awaited user.save() rejects                        *)
authenticateCatch(r) ==
    /\ \/ req[r].pc = "authSave"
       \/ /\ req[r].pc = "auth"
          /\ isBearer(req[r].header)
          /\ verifyToken(req[r].header.token).ok
    /\ Respond(r, 401, "Token is not valid.", 0)
    /\ UNCHANGED <<now, users, posts, cats, issued>>

(* a controller's catch: the call awaited at the request's position rejects *)
handlerCatch(r) ==
    /\ req[r].pc \in HandlerPcs
    /\ Respond(r, 500, ServerError(req[r].op), 0)
    /\ UNCHANGED <<now, users, posts, cats, issued>>

FaultOps == {"register", "login", "getMe", "updateProfile", "changePassword",
             "getPosts", "getPost", "createPost", "updatePost", "deletePost",
             "likePost", "unlikePost", "addComment"}

(* the one body each route is sent *)
FaultBody(op) ==
    CASE op = "register" ->
           [NoBody EXCEPT !.username = "carol", !.email = "C@x",
                          !.password = "Passw0rd"]
      [] op = "login" ->
           [NoBody EXCEPT !.email = "a@x", !.password = "Passw0rd"]
      [] op = "updateProfile" -> [NoBody EXCEPT !.firstName = "Al"]
      [] op = "changePassword" ->
           [NoBody EXCEPT !.currentPassword = "Passw0rd",
                          !.newPassword = "N3wPassw"]
      [] op = "createPost" -> [NoBody EXCEPT !.title = "N1", !.category = 1]
      [] op = "updatePost" -> [NoBody EXCEPT !.title = "T2", !.category = 1]
      [] op = "addComment" -> [NoBody EXCEPT !.content = "a"]
      [] OTHER -> NoBody

(* routes with an :id name post 1 *)
FaultTarget(op) ==
    IF op \in {"getPost", "updatePost", "deletePost", "likePost", "unlikePost",
               "addComment"}
    THEN 1 ELSE 0

(* the requests in flight *)
InFlight == {r \in Reqs : req[r].pc \notin {"idle", "done"}}

MaxInFlight == 2

StartFault(r) ==
    /\ Cardinality(InFlight) < MaxInFlight
    /\ \E op \in FaultOps, h \in ClientHeaders :
         Begin(r, op, IF op \in PublicOps THEN NoHeader ELSE h,
               FaultTarget(op), FaultBody(op))

(* the author with a token, one published post of the author in category 1 *)
InitFault ==
    /\ now = 0
    /\ users = <<Account("alice", "a@x", "user"), Account("bob", "b@x", "admin")>>
    /\ posts = [p \in PostIds |->
                  IF p = 1
                  THEN [NoPost EXCEPT !.exists = TRUE, !.author = 1,
                                      !.category = 1, !.status = "published",
                                      !.title = "t", !.slug = "t"]
                  ELSE NoPost]
    /\ cats = [c \in CatIds |->
                 [exists |-> TRUE, isActive |-> TRUE,
                  postCount |-> IF c = 1 THEN 1 ELSE 0]]
    /\ issued = {[kind |-> "jwt", userId |-> 1, iat |-> 0, exp |-> JWT_EXPIRE,
                  secret |-> JWT_SECRET]}
    /\ req = [r \in Reqs |-> IdleReq]

(* a settled await of request r: the call resolved, or it rejected *)
FaultStep(r) ==
    \/ PostSteps(r)
    \/ getPosts(r)
    \/ getPostsCount(r)
    \/ getPost(r)
    \/ getPostSave(r)
    \/ likePost(r)
    \/ likePostSave(r)
    \/ unlikePost(r)
    \/ unlikePostSave(r)
    \/ addComment(r)
    \/ addCommentSave(r)
    \/ register(r)
    \/ registerCreate(r)
    \/ login(r)
    \/ loginSave(r)
    \/ getMe(r)
    \/ updateProfile(r)
    \/ changePassword(r)
    \/ changePasswordSave(r)
    \/ authenticateCatch(r)
    \/ handlerCatch(r)

NextFault ==
    \/ DeleteAccount(1)
    \/ \E r \in Reqs :
        \/ StartFault(r)
        \/ FaultStep(r)

(* the event loop settles every pending await: a request that has a step  *)
(* to take takes one                                                       *)
SpecFault ==
    InitFault /\ [][NextFault]_vars /\ \A r \in Reqs : WF_vars(FaultStep(r))

-----------------------------------------------------------------------------
(* Properties of the engagement operations *)

Done(r) == req[r].pc = "done"

Succeeded(r) == Done(r) /\ req[r].status \in {200, 201}

Quiescent == \A r \in Reqs : req[r].pc \in {"idle", "done"}

Occurrences(likes, userId) ==
    Cardinality({i \in 1..Len(likes) : likes[i] = userId})

(* C1: each account appears at most once in the like list of every post,   *)
(* in every reachable state, also after concurrent likePost and unlikePost *)
(* requests of the same account.  The code breaks it.                      *)
C1_LikeAtMostOnce ==
    \A p \in PostIds : \A u \in DOMAIN users :
        Occurrences(posts[p].likes, u) <= 1

(* What a request that succeeded would have done to the post had it run    *)
(* alone: the sequential meaning of the four operations.                   *)
SeqEffect(post, r) ==
    CASE req[r].op = "likePost"   ->
           [post EXCEPT !.likes = IF Occurrences(@, req[r].user.id) = 0
                                  THEN Append(@, req[r].user.id) ELSE @]
      [] req[r].op = "unlikePost" ->
           [post EXCEPT !.likes = SelectSeq(@, LAMBDA x : x # req[r].user.id)]
      [] req[r].op = "addComment" ->
           [post EXCEPT !.comments =
               Append(@, [user |-> req[r].user.id,
                          content |-> IF req[r].body.content = " a "
                                      THEN "a" ELSE req[r].body.content])]
      [] req[r].op = "getPost"    -> [post EXCEPT !.views = @ + 1]
      [] OTHER -> post

RECURSIVE RunSeq(_, _)
RunSeq(post, order) ==
    IF order = <<>> THEN post
    ELSE RunSeq(SeqEffect(post, Head(order)), Tail(order))

Orders(S) ==
    {o \in [1..Cardinality(S) -> S] :
        \A i, j \in 1..Cardinality(S) : o[i] = o[j] => i = j}

Observed(post) == <<post.likes, post.comments, post.views>>

InitialPost(l) == [NoPost EXCEPT !.likes = l]

(* C2: no lost updates.  Once the requests on a post have completed, its   *)
(* like list, comment list and view counter are those of some sequential   *)
(* execution of the requests that succeeded.  The code breaks it.          *)
C2_NoLostUpdate ==
    Quiescent =>
        \A p \in Targets :
            LET S == {r \in Reqs : Succeeded(r) /\ req[r].pid = p}
            IN  \E l \in InitialLikes : \E o \in Orders(S) :
                    Observed(RunSeq(InitialPost(l), o)) = Observed(posts[p])

(* The step of request r that leaves the program point pc *)
Leaves(r, op, pc) ==
    req[r].op = op /\ req[r].pc = pc /\ req'[r].pc # pc

(* C9: addLike is idempotent.  A likePost of an account that the post's    *)
(* like list already holds writes nothing, answers 200 and reports the     *)
(* unchanged like count; and on every like list the program reaches,       *)
(* addLike applied twice gives the list that addLike applied once gives.   *)
C9_AddLikeIdempotent ==
    [][ /\ \A r \in Reqs :
             LET pid == req[r].pid
                 uid == req[r].user.id
             IN  ( /\ Leaves(r, "likePost", "handler")
                   /\ posts[pid].exists
                   /\ Occurrences(posts[pid].likes, uid) >= 1 )
                 => /\ posts' = posts
                    /\ req'[r].pc = "done"
                    /\ req'[r].status = 200
                    /\ req'[r].out = Len(posts[pid].likes)
        /\ \A p \in PostIds : \A u \in DOMAIN users :
             LET once == addLike(posts'[p].likes, u)
             IN  /\ addLike(once, u) = once
                 /\ Occurrences(once, u) >= 1
      ]_vars

C9_Witness ==
    \E r1, r2 \in Reqs :
        /\ r1 # r2
        /\ req[r1].op = "likePost" /\ req[r2].op = "likePost"
        /\ Succeeded(r1) /\ Succeeded(r2)
        /\ req[r1].user.id = req[r2].user.id
        /\ req[r1].pid = req[r2].pid
        /\ req[r1].out = req[r2].out
        /\ Occurrences(posts[req[r1].pid].likes, req[r1].user.id) = 1

Others(likes, userId) == SelectSeq(likes, LAMBDA x : x # userId)

(* C10: removeLike removes the entries of the calling account and nothing  *)
(* else.  The save of an unlikePost leaves the likes of every other        *)
(* account, the comments, the views and every other post as they are; when *)
(* it answers 200 after removing, the account is no longer in the list;    *)
(* and when the loaded list does not hold the account nothing is written   *)
(* and the answer is 200.                                                  *)
C10_RemoveLikeFrame ==
    [][ \A r \in Reqs :
          LET pid == req[r].pid
              uid == req[r].user.id
          IN  /\ ( Leaves(r, "unlikePost", "handler") /\ posts[pid].exists )
                 => /\ req'[r].doc.likes = Others(posts[pid].likes, uid)
                    /\ (Occurrences(posts[pid].likes, uid) = 0
                          => req'[r].modified = {})
              /\ ( Leaves(r, "unlikePost", "save") /\ posts[pid].exists )
                 => /\ Others(posts'[pid].likes, uid) = Others(posts[pid].likes, uid)
                    /\ posts'[pid].comments = posts[pid].comments
                    /\ posts'[pid].views = posts[pid].views
                    /\ \A q \in PostIds \ {pid} : posts'[q] = posts[q]
                    /\ (req[r].modified # {} /\ req'[r].status = 200
                          => Occurrences(posts'[pid].likes, uid) = 0)
                    /\ (req[r].modified = {}
                          => posts' = posts /\ req'[r].status = 200)
      ]_vars

C10_Witness ==
    \E r \in Reqs :
        /\ req[r].op = "unlikePost" /\ Succeeded(r)
        /\ req[r].user.id = 1 /\ req[r].out = 1
        /\ posts[req[r].pid].likes = <<2>>
        /\ \A q \in Reqs : req[q].op # "likePost"

-----------------------------------------------------------------------------
(* Properties of the authentication gate and the token service *)

LeavesPc(r, pc) == req[r].pc = pc /\ req'[r].pc # pc

SignedByServer(t) == t.kind = "jwt" /\ t.secret = JWT_SECRET

LiveAccount(u) == u \in DOMAIN users /\ users[u].exists /\ users[u].isActive

Protected(r) == req[r].op # "" /\ req[r].op \notin PublicOps

(* The route handler of protected request r has been entered *)
HandlerRan(r) ==
    \/ req[r].pc \in {"handler", "save"}
    \/ req[r].pc = "done" /\ req[r].status # 401

ResolvedFromToken(r) ==
    /\ req[r].header.scheme = "Bearer"
    /\ SignedByServer(req[r].header.token)
    /\ req[r].user.id = req[r].header.token.userId
    /\ req[r].user.id \in DOMAIN users
    /\ req[r].user.isActive

(* C4: authentication gate.  The verification step of a protected request  *)
(* lets it through exactly when the header is a Bearer header whose token  *)
(* is signed by the server, unexpired, and names an account that exists    *)
(* and is active at that moment, and answers 401 otherwise; the save step  *)
(* hands over to the handler with that account or answers 401; and a       *)
(* handler is never entered without such a resolved account in req.user.   *)
C4_AuthenticationGate ==
    [][ \A r \in Reqs :
          LET h == req[r].header
              t == h.token
              valid == /\ h.scheme = "Bearer"
                       /\ SignedByServer(t)
                       /\ now < t.exp
                       /\ LiveAccount(t.userId)
          IN  /\ LeavesPc(r, "auth") =>
                    IF valid
                    THEN /\ req'[r].pc = "authSave"
                         /\ req'[r].user.id = t.userId
                         /\ req'[r].user.isActive
                    ELSE /\ req'[r].pc = "done"
                         /\ req'[r].status = 401
                         /\ req'[r].user.id = 0
              /\ LeavesPc(r, "authSave") =>
                    IF users[req[r].user.id].exists
                    THEN req'[r].pc = "handler" /\ req'[r].user = req[r].user
                    ELSE req'[r].pc = "done" /\ req'[r].status = 401
              /\ (Protected(r) /\ HandlerRan(r))' => ResolvedFromToken(r)'
      ]_vars

C4_Witness ==
    /\ \E r \in Reqs : /\ req[r].op = "getMe" /\ Done(r)
                       /\ req[r].status = 200 /\ req[r].user.id = 1
    /\ \E r \in Reqs : /\ req[r].op = "getMe" /\ Done(r)
                       /\ req[r].status = 401 /\ req[r].header.scheme = "Basic"
                       /\ req[r].header.token \in issued

(* C5: a token the server issued is rejected with 401 by every verification *)
(* that happens while its account is deactivated or no longer exists.      *)
C5_RejectedAfterDeactivation ==
    [][ \A r \in Reqs :
          ( /\ LeavesPc(r, "auth")
            /\ req[r].header.token \in issued
            /\ ~LiveAccount(req[r].header.token.userId) )
          => /\ req'[r].pc = "done"
             /\ req'[r].status = 401
             /\ req'[r].user.id = 0
      ]_vars

C5_Witness ==
    /\ \E r \in Reqs : /\ Done(r) /\ req[r].status = 401
                       /\ req[r].header.token \in issued
                       /\ req[r].message = "Account is deactivated."
    /\ \E r \in Reqs : /\ Done(r) /\ req[r].status = 401
                       /\ req[r].header.token \in issued
                       /\ req[r].message = "Token is not valid. User not found."

TokenVerdicts ==
    /\ \A t \in issued :
         /\ now < t.iat + JWT_EXPIRE
               => verifyToken(t) = [ok |-> TRUE, userId |-> t.userId]
         /\ now > t.iat + JWT_EXPIRE => ~verifyToken(t).ok
    /\ \A t \in Forged : ~verifyToken(t).ok

(* C6: token expiry and signature.  verifyToken accepts a token issued by  *)
(* generateToken at every time before issuance + lifetime and yields its   *)
(* account id, and fails at every time after it, on a malformed token and  *)
(* on one signed with another secret; authenticate answers such a Bearer   *)
(* header with 401.                                                        *)
C6_TokenExpiry ==
    [][ /\ TokenVerdicts /\ TokenVerdicts'
        /\ \A r \in Reqs :
             LET t == req[r].header.token
             IN  ( /\ LeavesPc(r, "auth")
                   /\ req[r].header.scheme = "Bearer"
                   /\ \/ t \in issued /\ now > t.iat + JWT_EXPIRE
                      \/ t \in Forged )
                 => /\ req'[r].pc = "done"
                    /\ req'[r].status = 401
                    /\ req'[r].message = "Token is not valid."
      ]_vars

C6_Witness ==
    /\ \E r \in Reqs : /\ Done(r) /\ req[r].status = 401
                       /\ req[r].header.scheme = "Bearer"
                       /\ req[r].header.token \in issued
                       /\ req[r].header.token.iat > 0
                       /\ req[r].message = "Token is not valid."
                       /\ req[r].user.id = 0
    /\ \E r \in Reqs : /\ req[r].op = "login" /\ Succeeded(r)

-----------------------------------------------------------------------------
(* Properties of registration *)

Stored(u) == u \in DOMAIN users /\ users[u].exists

(* C7: no two accounts have the same email, compared case-insensitively,   *)
(* and no two accounts have the same username, in every reachable state,   *)
(* also after concurrent register requests.                                *)
C7_UniqueAccounts ==
    \A u1, u2 \in DOMAIN users :
        (u1 # u2 /\ Stored(u1) /\ Stored(u2))
        => /\ toLowerCase(users[u1].email) # toLowerCase(users[u2].email)
           /\ users[u1].username # users[u2].username

(* two registrations raced for the same name or address: both passed the   *)
(* lookup, one was inserted and the other was refused by the index         *)
C7_Witness ==
    \E r1, r2 \in Reqs :
        /\ req[r1].op = "register" /\ Done(r1) /\ req[r1].status = 201
        /\ req[r2].op = "register" /\ Done(r2) /\ req[r2].status = 500
        /\ \/ toLowerCase(req[r1].body.email) = toLowerCase(req[r2].body.email)
           \/ req[r1].body.username = req[r2].body.username

EmailTaken(email) ==
    \E u \in DOMAIN users : Stored(u) /\ users[u].email = toLowerCase(email)

UsernameTaken(username) ==
    \E u \in DOMAIN users : Stored(u) /\ users[u].username = username

(* C8: a register whose email equals, case-insensitively, the email of an  *)
(* existing account is answered 400 'Email already exists'; one whose      *)
(* username exists while its email is unused is answered 400 'Username     *)
(* already exists'; in both cases no account is created and no token is    *)
(* issued.  The code breaks the first part.                                *)
C8_DuplicateMessages ==
    [][ \A r \in Reqs :
          LET b == req[r].body
          IN  ( /\ Leaves(r, "register", "handler")
                /\ (EmailTaken(b.email) \/ UsernameTaken(b.username)) )
              => /\ req'[r].pc = "done"
                 /\ req'[r].status = 400
                 /\ req'[r].message = IF EmailTaken(b.email)
                                      THEN "Email already exists"
                                      ELSE "Username already exists"
                 /\ users' = users
                 /\ issued' = issued
                 /\ req'[r].token = NoToken
      ]_vars

-----------------------------------------------------------------------------
(* Properties of the ownership check *)

OwnerOps == {"updatePost", "deletePost"}

MayAct(post, r) == post.author = req[r].user.id \/ req[r].user.role = "admin"

(* C3 as stated: on an existing post, updatePost and deletePost succeed if *)
(* and only if the actor is the post's author or an admin, and every other *)
(* account is answered 403.  The code does not do this: an author's update *)
(* that names a category which does not exist is answered 400.             *)
C3_SucceedsIffOwnerOrAdmin ==
    [][ \A r \in Reqs :
          LET post == IF req[r].pc = "handler"
                      THEN posts[req[r].pid] ELSE req[r].doc
          IN  ( /\ req[r].op \in OwnerOps
                /\ req[r].pc \notin {"idle", "auth", "authSave", "done"}
                /\ req'[r].pc = "done"
                /\ post.exists )
              => IF MayAct(post, r)
                 THEN req'[r].status = 200
                 ELSE req'[r].status = 403
      ]_vars

(* C3 as amended: on an existing post the answer is 403 exactly when the   *)
(* actor is neither the author nor an admin, and then nothing is changed;  *)
(* an author or admin is let through, its deletePost is answered 200, and  *)
(* its updatePost is answered 200 unless the body names a category that    *)
(* does not exist (400) or the post is gone when the update is applied     *)
(* (500).                                                                  *)
C3_ForbiddenIffNotOwnerOrAdmin ==
    [][ \A r \in Reqs :
          LET pid == req[r].pid
              b == req[r].body
          IN  /\ ( /\ req[r].op \in OwnerOps
                   /\ LeavesPc(r, "handler")
                   /\ posts[pid].exists )
                 => IF MayAct(posts[pid], r)
                    THEN req'[r].pc # "done"
                    ELSE /\ req'[r].pc = "done"
                         /\ req'[r].status = 403
                         /\ posts' = posts /\ cats' = cats
              /\ ( /\ req[r].op = "deletePost"
                   /\ req[r].pc \in {"delete", "category", "count", "catSave"}
                   /\ req'[r].pc = "done" )
                 => req'[r].status = 200 /\ ~posts'[pid].exists
              /\ ( /\ req[r].op = "updatePost"
                   /\ req[r].pc \in {"category", "save"}
                   /\ req'[r].pc = "done" )
                 => /\ MayAct(req[r].doc, r)
                    /\ req'[r].status =
                         IF req[r].pc = "category" THEN 400
                         ELSE IF ~posts[pid].exists THEN 500
                         ELSE 200
                    /\ (req[r].pc = "category" => ~cats[b.category].exists)
              /\ ( req[r].op \in OwnerOps /\ req[r].pc # "done"
                   /\ req'[r].pc = "done" /\ req'[r].status = 200 )
                 => MayAct(req[r].doc, r)
      ]_vars

C3_Witness ==
    /\ \E r \in Reqs : /\ req[r].op \in OwnerOps /\ Done(r)
                       /\ req[r].status = 200
                       /\ req[r].user.role = "admin" /\ req[r].user.id # 1
    /\ \E r \in Reqs : /\ req[r].op \in OwnerOps /\ Done(r)
                       /\ req[r].status = 403
                       /\ req[r].user.role = "user" /\ req[r].user.id # 1

-----------------------------------------------------------------------------
(* Properties of the post lifecycle *)

Answered(r, op, status) ==
    req[r].op = op /\ Done(r) /\ req[r].status = status

(* the successful reads of post p, in the order the client sent them *)
Reads(p) == {r \in Reqs : Answered(r, "getPost", 200) /\ req[r].pid = p}

(* C11: view counting.  With one client that awaits each response, N       *)
(* successful getPost calls on a post raise its stored view counter, which *)
(* starts at 0, by exactly N; the k-th of them reports k; and a getPost    *)
(* answered 404 counts nowhere.                                            *)
C11_ViewCounting ==
    \A p \in PostIds :
        /\ posts[p].exists => posts[p].views = Cardinality(Reads(p))
        /\ ~posts[p].exists => posts[p].views = 0
        /\ \A r \in Reads(p) :
              req[r].out = Cardinality({q \in Reads(p) : q <= r})

C11_Witness ==
    /\ \E r1, r2 \in Reqs :
          /\ r1 < r2 /\ r1 \in Reads(1) /\ r2 \in Reads(1)
          /\ req[r1].out = 1 /\ req[r2].out = 2
    /\ posts[1].views = 2

(* the number of published posts of category c among the posts ps *)
PublishedOf(ps, c) ==
    Cardinality({p \in DOMAIN ps : /\ ps[p].exists
                                   /\ ps[p].category = c
                                   /\ ps[p].status = "published"})

CountsInSync(ps, cs) ==
    \A c \in DOMAIN cs : cs[c].exists => cs[c].postCount = PublishedOf(ps, c)

OnlyCreatesAndDeletes ==
    \A r \in Reqs : req[r].op \in {"", "createPost", "deletePost"}

(* C12: with one client that awaits each response, after any sequence of   *)
(* createPost and deletePost requests the postCount of every category is   *)
(* the number of its existing published posts.                             *)
C12_CountAfterCreateDelete ==
    (Awaited /\ OnlyCreatesAndDeletes) => CountsInSync(posts, cats)

C12_Witness ==
    /\ \E r \in Reqs : Answered(r, "deletePost", 200) /\ req[r].pid = 1
    /\ \E r \in Reqs : /\ Answered(r, "createPost", 201)
                       /\ req[r].body.status = "" /\ req[r].body.category = 1
    /\ cats[1].postCount = 1
    /\ Awaited

(* C13: after a successful updatePost the postCount of every category is   *)
(* the number of its published posts.  The code breaks it: updatePost      *)
(* never recomputes a count.                                               *)
C13_CountAfterUpdate ==
    [][ \A r \in Reqs :
          ( /\ Leaves(r, "updatePost", "save")
            /\ req'[r].status = 200
            /\ CountsInSync(posts, cats) )
          => CountsInSync(posts', cats')
      ]_vars

(* C14: no drift under concurrent writes.  Once concurrent createPost and  *)
(* deletePost requests have all completed, the stored postCount of every   *)
(* category is the number of its published posts.  The code breaks it.     *)
C14_NoDriftWhenQuiescent ==
    ( /\ \A r \in Reqs : req[r].pc \in {"idle", "done"}
      /\ \A r \in Reqs : req[r].op \in {"", "createPost", "deletePost"} )
    => \A c \in CatIds : cats[c].postCount = PublishedOf(posts, c)

(* C15: the author of a post is the account that was authenticated for the *)
(* createPost that inserted it, and no step changes it while the post      *)
(* exists, whatever the body of an updatePost carries.                     *)
C15_AuthorImmutable ==
    [][ \A p \in PostIds :
          /\ (posts[p].exists /\ posts'[p].exists)
                => posts'[p].author = posts[p].author
          /\ (~posts[p].exists /\ posts'[p].exists)
                => \E r \in Reqs :
                      /\ Leaves(r, "createPost", "create")
                      /\ p = newPostId(r)
                      /\ posts'[p].author = req[r].user.id
                      /\ req[r].user.id = req[r].header.token.userId
      ]_vars

C15_Witness ==
    /\ \E r \in Reqs : /\ Answered(r, "updatePost", 200)
                       /\ req[r].pid = 1 /\ req[r].body.author = 2
                       /\ req[r].user.role = "admin"
    /\ posts[1].exists /\ posts[1].author = 1 /\ posts[1].title = "T2"
    /\ \E r \in Reqs : /\ Answered(r, "createPost", 201)
                       /\ posts[req[r].pid].author = req[r].user.id

NoSuchPost(id) == id \notin PostIds \/ ~posts[id].exists

(* C16: existence is checked before ownership.  An updatePost or a         *)
(* deletePost whose lookup finds no post is answered 404 'Post not found', *)
(* whoever the authenticated actor is, and changes nothing; a 403 is only  *)
(* ever given for a post that exists.                                      *)
C16_NotFoundBeforeOwnership ==
    [][ \A r \in Reqs :
          ( req[r].op \in OwnerOps /\ LeavesPc(r, "handler") )
          => /\ NoSuchPost(req[r].pid)
                => /\ req'[r].pc = "done"
                   /\ req'[r].status = 404
                   /\ req'[r].message = "Post not found"
                   /\ posts' = posts /\ cats' = cats
             /\ (req'[r].pc = "done" /\ req'[r].status = 403)
                => ~NoSuchPost(req[r].pid)
      ]_vars

C16_Witness ==
    /\ \E r \in Reqs : /\ Answered(r, "updatePost", 404)
                       /\ req[r].user.role = "admin"
    /\ \E r \in Reqs : /\ Answered(r, "deletePost", 404)
                       /\ req[r].user.role = "user"

-----------------------------------------------------------------------------
(* Properties of the accounts *)

(* stored is the hash, applied once, of the cleartext p *)
HashOf(p, stored) == stored.rounds = 1 /\ stored.text = p

(* the accounts whose email or username the identifier names *)
Matches(identifier) ==
    {u \in DOMAIN users :
        /\ users[u].exists
        /\ \/ users[u].email = toLowerCase(identifier)
           \/ users[u].username = identifier}

(* C17: the stored password of every account is the hash, applied exactly  *)
(* once, of the cleartext set last.  It starts as such a hash; a step      *)
(* changes it only as the save of a successful changePassword, to the hash *)
(* of the new password; a register stores the hash of the password sent;   *)
(* and no login, authenticated request or updateProfile touches it.        *)
C17_PasswordHashedOnce ==
    [][ /\ \A u \in DOMAIN users : users[u].password.rounds = 1
        /\ \A u \in DOMAIN users' : users'[u].password.rounds = 1
        /\ \A u \in DOMAIN users :
             users'[u].password # users[u].password
             => \E r \in Reqs :
                   /\ Leaves(r, "changePassword", "save")
                   /\ req[r].user.id = u
                   /\ req'[r].status = 200
                   /\ HashOf(req[r].body.newPassword, users'[u].password)
        /\ \A u \in DOMAIN users' \ DOMAIN users :
             \E r \in Reqs :
                /\ Leaves(r, "register", "save")
                /\ HashOf(req[r].body.password, users'[u].password)
      ]_vars

C17_Witness ==
    /\ \E r \in Reqs : /\ Answered(r, "changePassword", 200)
                       /\ req[r].body.newPassword = "N3wPassw"
                       /\ req[r].user.id = 1
    /\ \E r \in Reqs : /\ Answered(r, "updateProfile", 200)
                       /\ req[r].body.password = "Hacked00"
                       /\ req[r].user.id = 1
    /\ users[1].firstName = "Al"
    /\ users[1].lastLogin = 0
    /\ HashOf("N3wPassw", users[1].password)

(* the decision of login on the accounts as they are stored now *)
MayLogin(b) ==
    \E u \in Matches(b.email) :
        HashOf(b.password, users[u].password) /\ users[u].isActive

(* C18: the lookup step of login goes on to issue a token exactly when the *)
(* identifier names an account by email or username, the password matches  *)
(* that account's stored hash and the account is active; otherwise it      *)
(* answers 401 and issues no token.  The step that follows stamps the      *)
(* account's last login, issues the token and answers 200.  No other step  *)
(* of login issues a token.                                                *)
C18_LoginIffValid ==
    [][ \A r \in Reqs :
          /\ Leaves(r, "login", "handler")
             => IF MayLogin(req[r].body)
                THEN /\ req'[r].pc = "save"
                     /\ req'[r].user.id \in Matches(req[r].body.email)
                     /\ req'[r].token.userId = req'[r].user.id
                     /\ issued' = issued
                ELSE /\ req'[r].pc = "done"
                     /\ req'[r].status = 401
                     /\ req'[r].token = NoToken
                     /\ issued' = issued /\ users' = users
          /\ ( Leaves(r, "login", "save") /\ Stored(req[r].user.id) )
             => /\ req'[r].pc = "done"
                /\ req'[r].status = 200
                /\ req'[r].token \in issued'
                /\ users'[req[r].user.id].lastLogin = now
          /\ ( req[r].op = "login" /\ req[r].pc # "done" /\ req'[r].pc = "done"
               /\ req'[r].status = 200 )
             => req[r].pc = "save"
      ]_vars

C18_Witness ==
    /\ \E r \in Reqs : /\ Answered(r, "login", 200)
                       /\ req[r].body.email = "alice"
                       /\ req[r].token \in issued
    /\ \E r \in Reqs : /\ Answered(r, "login", 401)
                       /\ req[r].message = "Account is deactivated"
                       /\ req[r].token = NoToken
    /\ users[1].lastLogin = 0

Response(r) == <<req[r].status, req[r].message, req[r].out, req[r].token>>

(* C19: login does not reveal whether an identifier exists.  A login whose *)
(* identifier names no account and a login whose identifier names an       *)
(* account but whose password does not match its hash get the same         *)
(* response: 401, 'Invalid credentials', no data, no token.                *)
C19_LoginNoEnumeration ==
    [][ \A r \in Reqs :
          ( /\ Leaves(r, "login", "handler")
            /\ \A u \in Matches(req[r].body.email) :
                  ~HashOf(req[r].body.password, users[u].password) )
          => /\ req'[r].pc = "done"
             /\ Response(r)' = <<401, "Invalid credentials", 0, NoToken>>
             /\ users' = users /\ issued' = issued
      ]_vars

C19_Witness ==
    \E r1, r2 \in Reqs :
        /\ Answered(r1, "login", 401) /\ Answered(r2, "login", 401)
        /\ Matches(req[r1].body.email) = {}
        /\ Matches(req[r2].body.email) # {}
        /\ \A u \in Matches(req[r2].body.email) :
              ~HashOf(req[r2].body.password, users[u].password) /\ users[u].isActive
        /\ Response(r1) = Response(r2)

-----------------------------------------------------------------------------
(* Properties of updateProfile *)

(* the attributes of an account that are not profile fields *)
NonProfile(u) ==
    <<u.exists, u.username, u.email, u.role, u.password, u.isActive,
      u.lastLogin>>

(* C21: updateProfile changes only the first name, last name and bio of   *)
(* the calling account, to the values the body gives them, whatever other  *)
(* fields the body carries; the caller's other attributes and every other  *)
(* account are unchanged.                                                  *)
C21_ProfileFrame ==
    [][ \A r \in Reqs :
          LET uid == req[r].user.id
              b == req[r].body
          IN  Leaves(r, "updateProfile", "handler")
              => /\ \A v \in DOMAIN users \ {uid} : users'[v] = users[v]
                 /\ DOMAIN users' = DOMAIN users
                 /\ NonProfile(users'[uid]) = NonProfile(users[uid])
                 /\ Stored(uid) =>
                      /\ b.firstName # "" => users'[uid].firstName = b.firstName
                      /\ b.lastName = "" => users'[uid].lastName = users[uid].lastName
                      /\ b.bio = "" => users'[uid].bio = users[uid].bio
                 /\ issued' = issued
      ]_vars

C21_Witness ==
    /\ \E r \in Reqs : /\ Answered(r, "updateProfile", 200)
                       /\ req[r].body.role = "admin"
                       /\ req[r].body.email = "h@x"
                       /\ req[r].user.id = 1
    /\ users[1].firstName = "Al"
    /\ users[1].role = "user" /\ users[1].email = "a@x"
    /\ users[1].username = "alice" /\ users[1].isActive

-----------------------------------------------------------------------------
(* Properties of createPost *)

ActiveCategory(c) == c \in CatIds /\ cats[c].exists /\ cats[c].isActive

(* C23: createPost is accepted only when the category it names exists and  *)
(* is active; otherwise it is answered 400 and neither a post nor a        *)
(* postCount changes.  The code breaks it: it only tests that the category *)
(* exists.                                                                 *)
C23_CreateNeedsActiveCategory ==
    [][ \A r \in Reqs :
          ( /\ Leaves(r, "createPost", "handler")
            /\ ~ActiveCategory(req[r].body.category) )
          => /\ req'[r].pc = "done"
             /\ req'[r].status = 400
             /\ posts' = posts /\ cats' = cats
      ]_vars

(* C24: a createPost of an authenticated account that names an existing    *)
(* active category persists a new post authored by the caller and is       *)
(* answered 201, whatever posts exist, also one with the same title.  The  *)
(* code breaks it: the slug made from the title is unique.                 *)
C24_CreateAlwaysPersists ==
    [][ \A r \in Reqs :
          ( /\ req[r].op = "createPost"
            /\ req[r].pc \in {"handler", "create", "count", "catSave"}
            /\ ActiveCategory(req[r].body.category) )
          => /\ Leaves(r, "createPost", "create")
                => /\ posts'[newPostId(r)].exists
                   /\ posts'[newPostId(r)].author = req[r].user.id
                   /\ ~posts[newPostId(r)].exists
             /\ req'[r].pc = "done" => req'[r].status = 201
      ]_vars

-----------------------------------------------------------------------------
(* Properties of the engagement operations racing with update and delete  *)

(* the content as stored: leading and trailing blanks removed *)
Trimmed(c) == IF c = " a " THEN "a" ELSE c

IsPrefix(a, b) == Len(a) <= Len(b) /\ \A i \in 1..Len(a) : b[i] = a[i]

RefusableOps ==
    {"updatePost", "deletePost", "likePost", "unlikePost", "addComment"}

(* C29: a request of updatePost, deletePost, likePost, unlikePost or       *)
(* addComment that is answered 403 or 404 has changed no post and no       *)
(* category: neither the step that refuses it nor its steps in the         *)
(* authentication gate before it write a post or a postCount.              *)
C29_RefusalChangesNothing ==
    [][ \A r \in Reqs :
          ( /\ req[r].op \in RefusableOps
            /\ req'[r] # req[r]
            /\ \/ req[r].pc \in {"idle", "auth", "authSave"}
               \/ req'[r].pc = "done" /\ req'[r].status \in {403, 404} )
          => posts' = posts /\ cats' = cats
      ]_vars

C29_Witness ==
    /\ \E r \in Reqs : /\ Answered(r, "deletePost", 403)
                       /\ req[r].pid = 1 /\ req[r].user.id = 2
    /\ \E r \in Reqs : /\ Answered(r, "likePost", 404)
    /\ posts[1].exists /\ posts[1].likes = <<1>> /\ posts[1].title = "t"
    /\ cats[1].postCount = 1

(* C30: a deleted post stays deleted.  No step makes a post exist that did *)
(* not exist, other than the insert of a createPost under its fresh id, so *)
(* no like, unlike, comment, view increment or update that read the post   *)
(* before it was deleted brings it back; and the postCount a deletePost    *)
(* writes for the post's category is that category's number of published   *)
(* posts.                                                                  *)
C30_DeletedStaysDeleted ==
    [][ /\ \A p \in PostIds :
             (~posts[p].exists /\ posts'[p].exists)
             => \E r \in Reqs :
                   Leaves(r, "createPost", "create") /\ p = newPostId(r)
        /\ \A r \in Reqs :
             ( Leaves(r, "deletePost", "catSave") /\ req'[r].status = 200 )
             => cats'[req[r].doc.category].postCount
                   = PublishedOf(posts', req[r].doc.category)
      ]_vars

C30_Witness ==
    /\ \E r \in Reqs : Answered(r, "deletePost", 200) /\ req[r].pid = 1
    /\ \E r \in Reqs : /\ req[r].op \in {"likePost", "addComment", "getPost",
                                          "unlikePost", "updatePost"}
                       /\ req[r].pid = 1
                       /\ Done(r) /\ req[r].status = 500
    /\ ~posts[1].exists
    /\ cats[1].postCount = 0

-----------------------------------------------------------------------------
(* Properties of the ownership middleware *)

(* C28: checkOwnership answers 404 for a resource that does not exist,     *)
(* before any ownership test, and lets the actor through to the mutating   *)
(* handler only if the actor is an admin or is the resource's owner; for a *)
(* resource without an author field that leaves admins only.  The code     *)
(* breaks it: it lets every authenticated actor through for such a         *)
(* resource.                                                               *)
C28_OwnershipByRoleOrOwner ==
    [][ \A r \in Reqs :
          ( req[r].op \in {"guardedPost", "guardedCategory"}
            /\ LeavesPc(r, "handler") )
          => LET isPost == req[r].op = "guardedPost"
                 id == req[r].pid
                 exists == IF isPost THEN posts[id].exists ELSE cats[id].exists
             IN  /\ ~exists => req'[r].pc = "done" /\ req'[r].status = 404
                 /\ req'[r].pc = "guarded"
                    => /\ exists
                       /\ \/ req[r].user.role = "admin"
                          \/ isPost /\ posts[id].author = req[r].user.id
      ]_vars

-----------------------------------------------------------------------------
(* Properties of the fault handling *)

(* C25: view counting is best-effort: a getPost that loaded an existing    *)
(* post answers 200 with the post also when persisting the increment       *)
(* fails.  The code breaks it: the rejected post.save() lands in the catch *)
(* and the read is answered 500, while the post is still stored.           *)
C25_ViewCountBestEffort ==
    [][ \A r \in Reqs :
          ( Leaves(r, "getPost", "save") /\ posts[req[r].pid].exists )
          => /\ req'[r].pc = "done"
             /\ req'[r].status = 200
      ]_vars

(* C26: the last-login stamp is best-effort: a request that carries a      *)
(* valid token of an active account, and whose account is still stored and *)
(* active when the stamp is saved, goes on to the protected operation with *)
(* the account attached.  The code breaks it: the rejected user.save()     *)
(* lands in authenticate's catch and the request is answered 401.          *)
C26_LastLoginBestEffort ==
    [][ \A r \in Reqs :
          ( /\ LeavesPc(r, "authSave")
            /\ users[req[r].user.id].exists
            /\ users[req[r].user.id].isActive )
          => /\ req'[r].pc = "handler"
             /\ req'[r].user = req[r].user
      ]_vars

(* C27, the part the code keeps: every request that was sent is eventually *)
(* answered, and an answer is final                                        *)
C27_EventuallyAnswered ==
    /\ \A r \in Reqs : (req[r].pc # "idle") ~> Done(r)
    /\ [][ \A r \in Reqs : Done(r) => req'[r] = req[r] ]_vars

(* C27: every request is answered exactly once, and a request that met an  *)
(* unexpected fault is answered 500 with the fixed message of its          *)
(* operation: a step of a request either goes on or answers with one of    *)
(* the outcomes of its operation, and for a request past the gate's own    *)
(* tests (a verified token of a stored, active account) the only answer    *)
(* left to the gate is the 500 of a fault.  The code breaks the last part: *)
(* a database fault inside authenticate is answered 401 'Token is not      *)
(* valid.'.                                                                *)
C27_FaultsAnswered500 ==
    [][ \A r \in Reqs :
          /\ Done(r) => req'[r] = req[r]
          /\ ( /\ req[r].pc \in HandlerPcs
               /\ Done(r)'
               /\ req'[r].status = 500 )
             => req'[r].message = ServerError(req[r].op)
          /\ ( /\ req[r].pc \in {"auth", "authSave"}
               /\ Done(r)'
               /\ isBearer(req[r].header)
               /\ verifyToken(req[r].header.token).ok
               /\ LET uid == verifyToken(req[r].header.token).userId
                  IN  users[uid].exists /\ users[uid].isActive )
             => req'[r].status = 500
      ]_vars

====
